---- MODULE Spec2Model ----
(***************************************************************************)
(* ApkTranslator.py: the workflow state machine of APKTranslatorApp, its   *)
(* worker threads and Tk "after" callbacks, the batch translation run      *)
(* (_worker_translate, _update_tags_from_response) and the retrying        *)
(* adapter translate_text_with_ai.                                         *)
(*                                                                         *)
(* Strings.  A Python string is a sequence of items: the opening           *)
(* <string name=..> markup, the closing </string> markup, the separator    *)
(* "\n---\n", or one run of characters.  The text of a tag is a sequence   *)
(* of character runs; the run "SEP" is the text "\n---\n" itself, which    *)
(* serialization writes as it is.                                          *)
(***************************************************************************)
EXTENDS Naturals, Sequences, FiniteSets, Bags, TLC

\* ---------------------------------------------------------------- constants

BATCH_SIZE == 100

API_MAX_RETRIES == 3

API_RATE_LIMIT_WAIT_SEC == 60

\* Bounds of the model: the worker threads alive at once, the threads of
\* other stages alive when the user starts a stage, the callbacks left
\* pending when the user starts a stage, the <string> tags of a strings.xml
\* the application is taken through from its start, and the runs of
\* characters the longest text has when the user starts a translate run.
MaxThreads == 2

MaxBeside == 0

MaxPending == 0

MaxTags == 1

MaxText == 1

None == "None"

\* AppState, in the order of its auto() values.
AppState == <<"INITIAL", "APK_SELECTED", "DECOMPILED", "STRINGS_EXTRACTED",
              "TRANSLATION_COMPLETE", "SAVED", "RECOMPILED">>

AppStates == {AppState[i] : i \in DOMAIN AppState}

\* -------------------------------------------------------------------- strings

Open(n) == [k |-> "open", name |-> n, c |-> ""]

Close == [k |-> "close", name |-> 0, c |-> ""]

Ch(c) == [k |-> "ch", name |-> 0, c |-> c]

\* XML_SEPARATOR, "\n---\n", as it stands in a string.
XML_SEPARATOR == [k |-> "sep", name |-> 0, c |-> ""]

\* XML_SEPARATOR as a run of a tag's text.
SEP == "SEP"

\* Character runs that are white space for str.strip().
IsSpace(it) == it.k = "ch" /\ it.c \in {" ", "\n"}

\* str.strip(): white space goes from both ends; a separator left at an end
\* loses its outer line break and is a separator no more.
Strip(s) ==
  LET keep == {i \in 1..Len(s) : ~IsSpace(s[i])}
  IN  IF keep = {} THEN <<>>
      ELSE LET lo == CHOOSE i \in keep : \A j \in keep : i <= j
               hi == CHOOSE i \in keep : \A j \in keep : j <= i
           IN  [i \in 1..(hi - lo + 1) |->
                  LET it == s[lo + i - 1]
                  IN  IF it.k = "sep" /\ lo = hi THEN Ch("---")
                      ELSE IF it.k = "sep" /\ i = 1 THEN Ch("---\n")
                      ELSE IF it.k = "sep" /\ i = hi - lo + 1 THEN Ch("\n---")
                      ELSE it]

\* The markup of a tag's text: the text itself, unescaped where it holds
\* the separator.
TextItems(text) ==
  [i \in 1..Len(text) |-> IF text[i] = SEP THEN XML_SEPARATOR ELSE Ch(text[i])]

\* ET.tostring(tag, encoding='unicode').strip()
ToXml(tag) == <<Open(tag.name)>> \o TextItems(tag.text) \o <<Close>>

\* XML_SEPARATOR.join(snippets)
RECURSIVE Join(_)
Join(snippets) ==
  LET n == Len(snippets)
      h == n \div 2
  IN  IF n = 0 THEN <<>>
      ELSE IF n = 1 THEN snippets[1]
      ELSE Join(SubSeq(snippets, 1, h)) \o <<XML_SEPARATOR>>
             \o Join(SubSeq(snippets, h + 1, n))

IsSepAt(s, i) == s[i].k = "sep"

\* s.split(XML_SEPARATOR)
Split(s) ==
  LET idx == [i \in 1..Len(s) |-> i]
      P   == SelectSeq(idx, LAMBDA i : IsSepAt(s, i))
      m   == Len(P)
  IN  [k \in 1..(m + 1) |->
         SubSeq(s, IF k = 1 THEN 1 ELSE P[k - 1] + 1,
                   IF k = m + 1 THEN Len(s) ELSE P[k] - 1)]

\* "ERROR_" in s
HasErrorMark(s) == \E i \in 1..Len(s) : s[i].k = "ch" /\ s[i].c = "ERROR_"

\* ET.fromstring(x) succeeds: one opening markup, character runs, one
\* closing markup.
ParseOk(p) ==
  /\ Len(p) >= 2
  /\ p[1].k = "open"
  /\ p[Len(p)].k = "close"
  /\ \A j \in 2..(Len(p) - 1) : p[j].k = "ch"

\* The text of the element ET.fromstring(x) returns.
ParsedText(p) == [j \in 1..(Len(p) - 2) |-> p[j + 1].c]

\* ---------------------------------------------------------------------- state

VARIABLES
  current_state,      \* self.current_state
  expert_mode,        \* self.expert_mode
  buttons,            \* the step buttons whose state is tk.NORMAL
  dependencies_ok,    \* self.dependencies_ok
  apk_path,           \* self.apk_path
  decompiled_dir,     \* self.decompiled_dir
  original_strings_xml_path,
  unsigned_apk_path,  \* self.unsigned_apk_path
  xml_root,           \* self.xml_root: the element tree it refers to, or 0
  trees,              \* the element trees alive: the <string> tags of each
  text_editor,        \* the content of self.text_editor
  progress_bar,       \* maximum and value of self.progress_bar
  progress_text,      \* self.progress_text
  after_queue,        \* the callbacks given to root.after(0, ..), in order
  threads,            \* the worker threads alive, each with its locals
  fs,                 \* the files of the work directory and the bundle:
                      \* the tools, the decompiled tree, the unsigned
                      \* package and the strings.xml the save stage wrote
  api                 \* a call of translate_text_with_ai, taken on its own

gui == <<current_state, expert_mode, buttons, dependencies_ok>>

paths == <<apk_path, decompiled_dir, original_strings_xml_path,
           unsigned_apk_path>>

doc == <<xml_root, trees>>

widgets == <<text_editor, progress_bar, progress_text>>

vars == <<gui, paths, doc, widgets, after_queue, threads, fs, api>>

TreeIds == 1..(MaxThreads + 1)

Buttons == {"step2_btn", "step2b_btn", "step3_btn", "step4a_btn",
            "step5_btn", "step6_btn", "step7_btn"}

\* A callback of the Tk event loop: its name and its arguments.
Callback(cb, s, v, t, content) ==
  [cb |-> cb, s |-> s, v |-> v, t |-> t, content |-> content]

SetState(s) == Callback("set_state", s, 0, 0, <<>>)

ShowError(title, content) == Callback("showerror", title, 0, 0, content)

UpdateUi == Callback("_update_ui_for_state", "", 0, 0, <<>>)

\* A thread as threading.Thread starts it on the worker pc: no local is
\* assigned yet.
NewThread(pc) ==
  [pc |-> pc, root |-> 0, strings |-> <<>>, snippets |-> <<>>, i |-> 0,
   translated_count |-> 0, combined_translation |-> <<>>]

\* The tags of a strings.xml with n entries of plain text.
PlainTags(n) == [i \in 1..n |-> [name |-> i, text |-> <<"w">>]]

\* The strings.xml files a decompiled package may hold.
StringsFiles == {PlainTags(n) : n \in 0..MaxTags}

\* ------------------------------------------------------------ the state gate

\* state_map of _update_ui_for_state
StateMap(state) ==
  CASE state = "APK_SELECTED" -> {"step2_btn", "step2b_btn"}
    [] state = "DECOMPILED" -> {"step3_btn"}
    [] state = "STRINGS_EXTRACTED" -> {"step4a_btn"}
    [] state = "TRANSLATION_COMPLETE" -> {"step5_btn"}
    [] state = "SAVED" -> {"step6_btn"}
    [] state = "RECOMPILED" -> {"step7_btn"}
    [] OTHER -> {}

\* _update_ui_for_state as it would be without its expert mode branch.
UpdateUiForStateGated(state, expert) == StateMap(state)

\* _update_ui_for_state: the buttons left enabled.
UpdateUiForState(state, expert) == IF expert THEN Buttons ELSE StateMap(state)

\* ------------------------------------------------------------ element trees

TreesInUse(root, thr) == ({root} \cup {th.root : th \in BagToSet(thr)}) \ {0}

\* The trees no reference reaches any more are dropped.
Collect(tr, root, thr) ==
  [id \in TreeIds |-> IF id \in TreesInUse(root, thr) THEN tr[id] ELSE <<>>]

NewTreeId == CHOOSE id \in TreeIds :
               /\ id \notin TreesInUse(xml_root, threads)
               /\ \A j \in TreeIds : j < id => j \in TreesInUse(xml_root, threads)

\* ---------------------------------------------------------------------- Init

\* translate_text_with_ai before it is called.
ApiIdle ==
  [pc |-> "idle", attempt |-> 0, log |-> <<>>, value |-> <<>>, text |-> <<>>]

\* The application as APKTranslatorApp.__init__ leaves it; the bundle holds
\* the tools or lacks them.
Init ==
  /\ current_state = "INITIAL"
  /\ expert_mode = FALSE
  /\ buttons = UpdateUiForState("INITIAL", FALSE)
  /\ dependencies_ok = FALSE
  /\ apk_path = None
  /\ decompiled_dir = None
  /\ original_strings_xml_path = None
  /\ unsigned_apk_path = None
  /\ xml_root = 0
  /\ trees = [id \in TreeIds |-> <<>>]
  /\ text_editor = <<>>
  /\ progress_bar = [maximum |-> 0, value |-> 0]
  /\ progress_text = [s |-> "", v |-> 0, t |-> 0]
  /\ after_queue = <<Callback("check_dependencies_silently", "", 0, 0, <<>>)>>
  /\ threads = EmptyBag
  /\ fs \in [tools : BOOLEAN, decompiled : {FALSE}, unsigned : {FALSE},
             saved : {<<>>}]
  /\ api = ApiIdle

\* ------------------------------------------------------------ the GUI thread

Post(cbs) == after_queue' = after_queue \o cbs

\* The stage a thread works for, by its pc.
StageOf(pc) == IF pc = "batch" THEN "translate" ELSE pc

\* The threads alive that work for another stage than pc.
Beside(pc) ==
  [th \in {u \in BagToSet(threads) : StageOf(u.pc) # StageOf(pc)} |->
     CopiesIn(th, threads)]

\* The model lets the user start a stage while fewer than MaxThreads threads
\* are alive, at most MaxBeside of them of other stages, and at most
\* MaxPending callbacks wait.
CanStart(pc) ==
  /\ BagCardinality(threads) < MaxThreads
  /\ BagCardinality(Beside(pc)) <= MaxBeside
  /\ Len(after_queue) <= MaxPending

\* run_in_thread
RunInThread(pc) ==
  /\ CanStart(pc)
  /\ threads' = threads (+) SetToBag({NewThread(pc)})

\* set_state
set_state(new_state) ==
  /\ current_state' = new_state
  /\ buttons' = UpdateUiForState(new_state, expert_mode)

\* shutil.rmtree(self.work_dir)
WipeWorkDir ==
  [fs EXCEPT !.decompiled = FALSE, !.unsigned = FALSE, !.saved = <<>>]

\* run_step1_select_apk with a file chosen: removing the old work directory
\* fails, or the copy fails, or the package is copied.  The step 1 button is
\* no member of the buttons _update_ui_for_state disables.
SelectApk(outcome) ==
  /\ Len(after_queue) <= MaxPending
  /\ apk_path' = IF outcome = "rmtree_failed" THEN apk_path ELSE "apk"
  /\ fs' = IF outcome = "rmtree_failed" THEN fs ELSE WipeWorkDir
  /\ IF outcome = "copied"
     THEN set_state("APK_SELECTED")
     ELSE UNCHANGED <<current_state, buttons>>
  /\ UNCHANGED <<expert_mode, dependencies_ok, decompiled_dir,
                 original_strings_xml_path, unsigned_apk_path, doc, widgets,
                 after_queue, threads, api>>

run_step1_select_apk ==
  \E outcome \in {"rmtree_failed", "copy_failed", "copied"} : SelectApk(outcome)

\* run_step2_decompile as it would be without _ensure_dependencies_ok.
run_step2_decompile_unchecked ==
  /\ \E b \in {"step2_btn", "step2b_btn"} : b \in buttons
  /\ apk_path # None
  /\ RunInThread("decompile")
  /\ UNCHANGED <<gui, paths, doc, widgets, after_queue, fs, api>>

\* run_step2_decompile, from either of its two buttons.
run_step2_decompile ==
  /\ \E b \in {"step2_btn", "step2b_btn"} : b \in buttons
  /\ dependencies_ok
  /\ apk_path # None
  /\ RunInThread("decompile")
  /\ UNCHANGED <<gui, paths, doc, widgets, after_queue, fs, api>>

\* run_step3_extract_strings
run_step3_extract_strings ==
  /\ "step3_btn" \in buttons
  /\ decompiled_dir # None /\ fs.decompiled
  /\ RunInThread("extract")
  /\ UNCHANGED <<gui, paths, doc, widgets, after_queue, fs, api>>

\* The model lets the user start a translate run while no text of the
\* document is longer than MaxText runs of characters.
TextsWithin(tree, n) == \A j \in 1..Len(tree) : Len(tree[j].text) <= n

\* run_step4_translate, with an API key entered and a model selected: the
\* user may enter and select them at any time.
run_step4_translate ==
  /\ "step4a_btn" \in buttons
  /\ xml_root # 0
  /\ TextsWithin(trees[xml_root], MaxText)
  /\ buttons' = buttons \ {"step4a_btn"}
  /\ RunInThread("translate")
  /\ UNCHANGED <<current_state, expert_mode, dependencies_ok, paths, doc,
                 widgets, after_queue, fs, api>>

\* run_step5_save_translated
run_step5_save_translated ==
  /\ "step5_btn" \in buttons
  /\ decompiled_dir # None
  /\ RunInThread("save")
  /\ UNCHANGED <<gui, paths, doc, widgets, after_queue, fs, api>>

\* run_step6_recompile
run_step6_recompile ==
  /\ "step6_btn" \in buttons
  /\ dependencies_ok
  /\ decompiled_dir # None
  /\ RunInThread("recompile")
  /\ UNCHANGED <<gui, paths, doc, widgets, after_queue, fs, api>>

\* run_step7_sign
run_step7_sign ==
  /\ "step7_btn" \in buttons
  /\ dependencies_ok
  /\ unsigned_apk_path # None /\ fs.unsigned
  /\ RunInThread("sign")
  /\ UNCHANGED <<gui, paths, doc, widgets, after_queue, fs, api>>

\* The expert mode check box: Tk flips the variable, then toggle_expert_mode.
toggle_expert_mode ==
  /\ expert_mode' = ~expert_mode
  /\ buttons' = UpdateUiForState(current_state, ~expert_mode)
  /\ UNCHANGED <<current_state, dependencies_ok, paths, doc, widgets,
                 after_queue, threads, fs, api>>

\* ET.tostring(self.xml_root, ..): the document of a tree.
Document(id) == trees[id]

\* The Tk event loop runs the oldest pending callback.
HandleAfter ==
  /\ after_queue # <<>>
  /\ after_queue' = Tail(after_queue)
  /\ LET e == Head(after_queue)
     IN  /\ IF e.cb = "set_state" THEN set_state(e.s)
            ELSE IF e.cb = "_update_ui_for_state"
              THEN /\ buttons' = UpdateUiForState(current_state, expert_mode)
                   /\ UNCHANGED current_state
            ELSE IF e.cb = "step4a_btn.config"
              THEN /\ buttons' = buttons \cup {"step4a_btn"}
                   /\ UNCHANGED current_state
            ELSE UNCHANGED <<current_state, buttons>>
         /\ dependencies_ok' = IF e.cb = "check_dependencies_silently"
                               THEN fs.tools ELSE dependencies_ok
         /\ text_editor' = IF e.cb = "update_editor" THEN e.content
                           ELSE IF e.cb = "update_editor_from_root"
                             THEN Document(xml_root)
                           ELSE text_editor
         /\ progress_bar' =
              IF e.cb = "progress.begin"
                THEN [progress_bar EXCEPT !.maximum = e.t]
              ELSE IF e.cb = "progress.batch"
                THEN [progress_bar EXCEPT !.value = e.v]
              ELSE progress_bar
         /\ progress_text' =
              IF e.cb \in {"progress.begin", "progress.batch"}
                THEN [s |-> "v / t", v |-> e.v, t |-> e.t]
              ELSE IF e.cb = "progress.done"
                THEN [s |-> "done", v |-> 0, t |-> 0]
              ELSE progress_text
  /\ UNCHANGED <<expert_mode, paths, doc, threads, fs, api>>

\* ------------------------------------------------------- the worker threads
\* The message boxes a worker asks for (messagebox.showerror, showinfo) change
\* nothing of the application; only those of the translate run are kept, as
\* callbacks.

\* The thread returns (safe_api_call returns): its locals are gone, and so
\* are the trees only it referred to.
Return(th) ==
  /\ threads' = threads (-) SetToBag({th})
  /\ trees' = Collect(trees, xml_root, threads (-) SetToBag({th}))

\* The thread goes on with its locals as th2 holds them.
Continue(th, th2) == threads' = (threads (-) SetToBag({th})) (+) SetToBag({th2})

\* process.returncode of run_command, 0 only where the tool can succeed.
ExitCodes(can_succeed) == IF can_succeed THEN {0, 1} ELSE {1}

\* _worker_decompile as it would be with set_state posted whatever
\* run_command returns.
DecompileAdvancing(th, returncode) ==
  /\ th.pc = "decompile"
  /\ decompiled_dir' = "dir"
  /\ fs' = [fs EXCEPT !.decompiled = (returncode = 0), !.saved = <<>>]
  /\ Post(<<SetState("DECOMPILED")>>)
  /\ Return(th)
  /\ UNCHANGED <<gui, apk_path, original_strings_xml_path, unsigned_apk_path,
                 xml_root, widgets, api>>

\* _worker_decompile, apktool ending with returncode.
Decompile(th, returncode) ==
  /\ th.pc = "decompile"
  /\ decompiled_dir' = "dir"
  /\ IF returncode = 0
     THEN /\ fs' = [fs EXCEPT !.decompiled = TRUE, !.saved = <<>>]
          /\ Post(<<SetState("DECOMPILED")>>)
     ELSE /\ fs' = [fs EXCEPT !.decompiled = FALSE, !.saved = <<>>]
          /\ UNCHANGED after_queue
  /\ Return(th)
  /\ UNCHANGED <<gui, apk_path, original_strings_xml_path, unsigned_apk_path,
                 xml_root, widgets, api>>

_worker_decompile(th) ==
  \E returncode \in ExitCodes(TRUE) : Decompile(th, returncode)

\* What _worker_extract_strings may find in the work directory: no
\* strings.xml, one ET.parse refuses, or one it parses.
ExtractOutcomes ==
  {"strings.xml missing"}
    \cup (IF fs.decompiled THEN {"ParseError", "parsed"} ELSE {})

\* _worker_extract_strings: the <string> tags of a parsed file become the
\* new self.xml_root.
ExtractStrings(th, found, tags) ==
  /\ th.pc = "extract"
  /\ original_strings_xml_path' = "strings.xml"
  /\ IF found = "parsed"
     THEN /\ xml_root' = NewTreeId
          /\ threads' = threads (-) SetToBag({th})
          /\ trees' = Collect([trees EXCEPT ![NewTreeId] = tags], NewTreeId,
                              threads (-) SetToBag({th}))
          /\ Post(<<Callback("update_editor", "", 0, 0, tags),
                    SetState("STRINGS_EXTRACTED")>>)
     ELSE /\ UNCHANGED <<xml_root, after_queue>>
          /\ Return(th)
  /\ UNCHANGED <<gui, apk_path, decompiled_dir, unsigned_apk_path, widgets,
                 fs, api>>

_worker_extract_strings(th) ==
  \E found \in ExtractOutcomes :
    \E tags \in (IF found = "parsed" THEN StringsFiles ELSE {<<>>}) :
      ExtractStrings(th, found, tags)

\* What _worker_save_translated may end as: the place of the original is
\* unknown, the write raises, or the editor's content is written.
\* overwrite_original is the check box as the user left it.
SaveOutcomes(overwrite_original) ==
  IF overwrite_original /\ original_strings_xml_path = None
  THEN {"original unknown"}
  ELSE {"OSError"} \cup (IF overwrite_original => fs.decompiled
                         THEN {"written"} ELSE {})

\* _worker_save_translated: the content of the editor is what is written.
SaveTranslated(th, outcome) ==
  /\ th.pc = "save"
  /\ IF outcome = "written"
     THEN /\ fs' = [fs EXCEPT !.saved = text_editor]
          /\ Post(<<SetState("SAVED")>>)
     ELSE UNCHANGED <<fs, after_queue>>
  /\ Return(th)
  /\ UNCHANGED <<gui, paths, xml_root, widgets, api>>

_worker_save_translated(th) ==
  \E overwrite_original \in BOOLEAN :
    \E outcome \in SaveOutcomes(overwrite_original) : SaveTranslated(th, outcome)

\* _worker_recompile, apktool ending with returncode.
Recompile(th, returncode) ==
  /\ th.pc = "recompile"
  /\ unsigned_apk_path' = "unsigned.apk"
  /\ IF returncode = 0
     THEN /\ fs' = [fs EXCEPT !.unsigned = TRUE]
          /\ Post(<<SetState("RECOMPILED")>>)
     ELSE UNCHANGED <<fs, after_queue>>
  /\ Return(th)
  /\ UNCHANGED <<gui, apk_path, decompiled_dir, original_strings_xml_path,
                 xml_root, widgets, api>>

_worker_recompile(th) ==
  \E returncode \in ExitCodes(fs.decompiled) : Recompile(th, returncode)

\* _worker_sign as it would be with no set_state after the signing.
SignStaying(th, keystore_exists, returncode) ==
  /\ th.pc = "sign"
  /\ IF keystore_exists /\ returncode = 0
     THEN fs' = WipeWorkDir
     ELSE UNCHANGED fs
  /\ UNCHANGED after_queue
  /\ Return(th)
  /\ UNCHANGED <<gui, paths, xml_root, widgets, api>>

\* _worker_sign: key.jks is in the bundle or not, and with it apksigner ends
\* with returncode.
Sign(th, keystore_exists, returncode) ==
  /\ th.pc = "sign"
  /\ IF keystore_exists /\ returncode = 0
     THEN /\ fs' = WipeWorkDir
          /\ Post(<<SetState("INITIAL")>>)
     ELSE UNCHANGED <<fs, after_queue>>
  /\ Return(th)
  /\ UNCHANGED <<gui, paths, xml_root, widgets, api>>

_worker_sign(th) ==
  \E keystore_exists \in BOOLEAN :
    \E returncode \in ExitCodes(fs.unsigned) :
      Sign(th, keystore_exists, returncode)

\* ------------------------------------------------ translate_text_with_ai

\* The failure strings of translate_text_with_ai.
ErrorString(class) == <<Ch("ERROR_"), Ch(class)>>

\* What the model answers to a batch: every fragment translated ("w" becomes
\* "t", the markup kept), or the same with the fragment at one place cut
\* short of its closing markup, or a fragment less, or a fragment more, or
\* every fragment under a name of no tag.
TranslateXml(snip) ==
  [j \in 1..Len(snip) |-> IF snip[j] = Ch("w") THEN Ch("t") ELSE snip[j]]

Malformed(snip) == SubSeq(snip, 1, Len(snip) - 1)

\* A fragment that carries another name than the tag it answers.
Renamed(snip) == [snip EXCEPT ![1] = Open(0)]

Response(kind, text) ==
  LET snips == Split(text)
      n  == Len(snips)
      tr == [i \in 1..n |-> TranslateXml(snips[i])]
  IN  CASE kind = "translated" -> Join(tr)
        [] kind = "malformed_first" -> Join([tr EXCEPT ![1] = Malformed(@)])
        [] kind = "malformed_last" -> Join([tr EXCEPT ![n] = Malformed(@)])
        [] kind = "one_less" -> Join(SubSeq(tr, 1, n - 1))
        [] kind = "one_more" -> Join(tr \o <<tr[n]>>)
        [] kind = "renamed" -> Join([i \in 1..n |-> Renamed(tr[i])])

ResponseKinds == {"translated", "malformed_first", "malformed_last",
                  "one_less", "one_more", "renamed"}

\* What one generate_content does: it answers, or raises ReadTimeout or
\* ConnectionError, or raises a rate limit, or raises anything else.
Outcomes == ResponseKinds \cup {"timeout", "rate_limit", "unexpected"}

\* What one call of translate_text_with_ai did, in order: each
\* generate_content with its outcome, and each time.sleep with its seconds.
LogEntry(what, sec) == [what |-> what, sec |-> sec]

\* not xml_snippets_text or xml_snippets_text.isspace()
IsBlank(text) == \A i \in 1..Len(text) : IsSpace(text[i])

\* translate_text_with_ai at its start: an empty or blank text is answered
\* "" at once, any other text enters the loop with attempt 0.
ApiStart(xml_snippets_text) ==
  [pc |-> IF IsBlank(xml_snippets_text) THEN "returned" ELSE "attempt",
   attempt |-> 0, log |-> <<>>, value |-> <<>>, text |-> xml_snippets_text]

ApiReturn(st, value, what) ==
  [st EXCEPT !.pc = "returned", !.value = value,
             !.log = Append(@, LogEntry(what, 0))]

\* The branch as it would be with no other pass after a rate limit or a
\* timeout.
ApiRetryOrGivingUp(st, class, what) ==
  ApiReturn(st, ErrorString(class), what)

\* The branch as it would be with the cooldown and another pass after every
\* rate limit or timeout, the last pass included.
ApiRetryOrWaiting(st, class, what) ==
  [st EXCEPT !.pc = "sleep", !.log = Append(@, LogEntry(what, 0))]

\* A rate limit or a timeout: the cooldown and another pass, unless this
\* pass was the last.
ApiRetryOr(st, class, what) ==
  IF st.attempt < API_MAX_RETRIES - 1
  THEN [st EXCEPT !.pc = "sleep", !.log = Append(@, LogEntry(what, 0))]
  ELSE ApiReturn(st, ErrorString(class), what)

\* The pass as it would be with any other exception retried like a rate limit.
ApiAttemptRetrying(st, outcome) ==
  IF st.attempt >= API_MAX_RETRIES
  THEN ApiReturn(st, ErrorString("MAX_RETRIES_REACHED"), "exhausted")
  ELSE CASE outcome = "timeout" -> ApiRetryOr(st, "TIMEOUT", "timeout")
         [] outcome = "rate_limit" -> ApiRetryOr(st, "RATE_LIMIT", "rate_limit")
         [] outcome = "unexpected" ->
              ApiRetryOr(st, "UNEXPECTED", "unexpected")
         [] OTHER -> ApiReturn(st, Strip(Response(outcome, st.text)), "ok")

\* One pass of the loop of translate_text_with_ai, generate_content ending
\* as outcome says; past the loop the function returns its last line.
ApiAttempt(st, outcome) ==
  IF st.attempt >= API_MAX_RETRIES
  THEN ApiReturn(st, ErrorString("MAX_RETRIES_REACHED"), "exhausted")
  ELSE CASE outcome = "timeout" -> ApiRetryOr(st, "TIMEOUT", "timeout")
         [] outcome = "rate_limit" -> ApiRetryOr(st, "RATE_LIMIT", "rate_limit")
         [] outcome = "unexpected" ->
              ApiReturn(st, ErrorString("UNEXPECTED"), "unexpected")
         [] OTHER -> ApiReturn(st, Strip(Response(outcome, st.text)), "ok")

\* The continue as it would be with no cooldown before the next pass.
ApiSleepSkipped(st) ==
  [st EXCEPT !.pc = "attempt", !.attempt = @ + 1]

\* time.sleep(API_RATE_LIMIT_WAIT_SEC) and continue
ApiSleep(st) ==
  [st EXCEPT !.pc = "attempt", !.attempt = @ + 1,
             !.log = Append(@, LogEntry("sleep", API_RATE_LIMIT_WAIT_SEC))]

\* The call run to its return, the passes ending as the outcomes say.
RECURSIVE ApiRun(_, _)
ApiRun(st, outcomes) ==
  IF st.pc = "returned" THEN st
  ELSE IF st.pc = "sleep" THEN ApiRun(ApiSleep(st), outcomes)
  ELSE ApiRun(ApiAttempt(st, Head(outcomes)), Tail(outcomes))

\* The outcomes of the passes of one call: retried passes, then a pass that
\* returns (one that answers or raises anything else, or pass
\* API_MAX_RETRIES with any outcome).  What follows the pass that returns is
\* not looked at: it is written "unexpected".
Retried == {"timeout", "rate_limit"}

OutcomeSeqs ==
  UNION {{[p \in 1..(API_MAX_RETRIES + 1) |->
             IF p <= k THEN r[p] ELSE IF p = k + 1 THEN o ELSE "unexpected"] :
            r \in [1..k -> Retried],
            o \in (IF k = API_MAX_RETRIES - 1 THEN Outcomes
                   ELSE Outcomes \ Retried)} :
         k \in 0..(API_MAX_RETRIES - 1)}

\* translate_text_with_ai(combined_text, api_key, model_name)
translate_text_with_ai(xml_snippets_text, outcomes) ==
  ApiRun(ApiStart(xml_snippets_text), outcomes).value

\* The values a call of translate_text_with_ai may return.
ApiValues(xml_snippets_text) ==
  {translate_text_with_ai(xml_snippets_text, o) : o \in OutcomeSeqs}

\* --------------------------------------------------------- the translate run

\* '%' in text, and 's' in text or 'd' in text, by the runs of the text.
HasPercent(text) == \E i \in 1..Len(text) : text[i] \in {"%", "%1$s", "%d"}

HasSOrD(text) == \E i \in 1..Len(text) : text[i] \in {"s", "d", "%1$s", "%d"}

\* The test as it would be without its format placeholder part.
IsTranslatableWithText(tag) == tag.text # <<>>

\* The test of _get_translatable_strings on one tag.
IsTranslatable(tag) ==
  tag.text # <<>> /\ ~(HasPercent(tag.text) /\ HasSOrD(tag.text))

\* _get_translatable_strings: the translatable tags of a tree, by position.
GetTranslatableStrings(tree) ==
  SelectSeq([i \in 1..Len(tree) |-> i], LAMBDA i : IsTranslatable(tree[i]))

Min(a, b) == IF a < b THEN a ELSE b

\* batch_tags as it would be with the slice one short of BATCH_SIZE.
BatchTagsShort(th) ==
  SubSeq(th.strings, th.i + 1, Min(th.i + BATCH_SIZE - 1, Len(th.strings)))

\* batch_tags and batch_xml_snippets of the batch that starts at offset i.
BatchTags(th) ==
  SubSeq(th.strings, th.i + 1, Min(th.i + BATCH_SIZE, Len(th.strings)))

BatchSnippets(th) ==
  SubSeq(th.snippets, th.i + 1, Min(th.i + BATCH_SIZE, Len(th.strings)))

\* _worker_translate up to its loop as it would be with the run going on to
\* its completion when there is no translatable string.
TranslateBeginCompleting(th) ==
  /\ th.pc = "translate"
  /\ LET strings_to_translate == GetTranslatableStrings(trees[xml_root])
         total_strings == Len(strings_to_translate)
     IN  IF strings_to_translate = <<>>
         THEN /\ Post(<<Callback("progress.done", "", 0, 0, <<>>),
                        SetState("TRANSLATION_COMPLETE")>>)
              /\ Return(th)
         ELSE /\ Post(<<Callback("progress.begin", "", 0, total_strings,
                                 <<>>)>>)
              /\ Continue(th,
                   [th EXCEPT !.pc = "batch", !.root = xml_root,
                              !.strings = strings_to_translate,
                              !.snippets =
                                [j \in 1..total_strings |->
                                   ToXml(trees[xml_root][strings_to_translate[j]])],
                              !.i = 0, !.translated_count = 0])
              /\ UNCHANGED trees
  /\ UNCHANGED <<gui, paths, xml_root, widgets, fs, api>>

\* _worker_translate up to its loop: no translatable string, or the progress
\* display is set up and the snippets are serialized.
TranslateBegin(th) ==
  /\ th.pc = "translate"
  /\ LET strings_to_translate == GetTranslatableStrings(trees[xml_root])
         total_strings == Len(strings_to_translate)
     IN  IF strings_to_translate = <<>>
         THEN /\ Post(<<Callback("step4a_btn.config", "", 0, 0, <<>>)>>)
              /\ Return(th)
         ELSE /\ Post(<<Callback("progress.begin", "", 0, total_strings,
                                 <<>>)>>)
              /\ Continue(th,
                   [th EXCEPT !.pc = "batch", !.root = xml_root,
                              !.strings = strings_to_translate,
                              !.snippets =
                                [j \in 1..total_strings |->
                                   ToXml(trees[xml_root][strings_to_translate[j]])],
                              !.i = 0, !.translated_count = 0])
              /\ UNCHANGED trees
  /\ UNCHANGED <<gui, paths, xml_root, widgets, fs, api>>

\* The sentinel prefix of a record whose piece of the answer did not parse.
TRANSLATION_ERROR == "TRANSLATION_ERROR: "

\* original_tag.text as it would be with the original text dropped from a
\* record marked as failed.
UpdatedTextLosing(text, translated_xml) ==
  IF ParseOk(Strip(translated_xml))
  THEN ParsedText(Strip(translated_xml))
  ELSE <<TRANSLATION_ERROR>>

\* original_tag.text after the loop body of _update_tags_from_response on
\* one piece of the answer.
UpdatedText(text, translated_xml) ==
  IF ParseOk(Strip(translated_xml))
  THEN ParsedText(Strip(translated_xml))
  ELSE <<TRANSLATION_ERROR>> \o (IF text = <<>> THEN <<"None">> ELSE text)

\* The tree as it would be with each piece of the answer going to the tag of
\* the batch that has the name the piece carries.
UpdateTagsByName(tree, original_tags, split_translations) ==
  LET n  == Len(original_tags)
      named(j) == {q \in 1..n :
                     /\ ParseOk(Strip(split_translations[q]))
                     /\ Strip(split_translations[q])[1].name = tree[j].name}
  IN  [j \in 1..Len(tree) |->
         IF (\E p \in 1..n : original_tags[p] = j) /\ named(j) # {}
         THEN [tree[j] EXCEPT
                 !.text = ParsedText(Strip(split_translations[
                            CHOOSE q \in named(j) : TRUE]))]
         ELSE tree[j]]

\* The tree after the loop of _update_tags_from_response: piece p of the
\* answer goes to tag p of the batch.
UpdateTags(tree, original_tags, split_translations) ==
  LET n  == Len(original_tags)
      lo == original_tags[1]
      hi == original_tags[n]
  IN  [j \in 1..Len(tree) |->
         IF j >= lo /\ j <= hi /\ \E p \in 1..n : original_tags[p] = j
         THEN LET p == CHOOSE q \in 1..n : original_tags[q] = j
              IN  [tree[j] EXCEPT
                     !.text = UpdatedText(@, split_translations[p])]
         ELSE tree[j]]

\* The cardinality test of _update_tags_from_response.
CardinalityOk(original_tags, translated_xml_response) ==
  Len(Split(translated_xml_response)) = Len(original_tags)

\* The pass as it would be with the pieces zipped onto the tags before their
\* number is tested.
TranslateBatchZipFirst(th, combined_translation) ==
  /\ th.pc = "batch"
  /\ th.i < Len(th.strings)
  /\ LET batch_tags == BatchTags(th)
         pieces == Split(combined_translation)
         m == Min(Len(batch_tags), Len(pieces))
         count == th.translated_count + Len(batch_tags)
         zipped == [trees EXCEPT ![th.root] =
                      UpdateTags(@, SubSeq(batch_tags, 1, m),
                                 SubSeq(pieces, 1, m))]
     IN  IF HasErrorMark(combined_translation)
         THEN /\ Post(<<ShowError("API", combined_translation), UpdateUi>>)
              /\ Return(th)
         ELSE IF ~CardinalityOk(batch_tags, combined_translation)
         THEN /\ Post(<<ShowError("mismatch", <<>>), UpdateUi>>)
              /\ threads' = threads (-) SetToBag({th})
              /\ trees' = Collect(zipped, xml_root, threads (-) SetToBag({th}))
         ELSE /\ trees' = zipped
              /\ Continue(th,
                   [th EXCEPT !.i = @ + BATCH_SIZE,
                              !.translated_count = count,
                              !.combined_translation = combined_translation])
              /\ Post(<<Callback("progress.batch", "", count,
                                 Len(th.strings), <<>>),
                        Callback("update_editor_from_root", "", 0, 0, <<>>)>>)
  /\ UNCHANGED <<gui, paths, xml_root, widgets, fs, api>>

\* The pass as it would be with the run going on to the next batch after an
\* error string.
TranslateBatchGoingOn(th, combined_translation) ==
  /\ th.pc = "batch"
  /\ th.i < Len(th.strings)
  /\ LET batch_tags == BatchTags(th)
         count == th.translated_count + Len(batch_tags)
     IN  IF HasErrorMark(combined_translation)
         THEN /\ Post(<<ShowError("API", combined_translation), UpdateUi>>)
              /\ Continue(th, [th EXCEPT !.i = @ + BATCH_SIZE])
              /\ UNCHANGED trees
         ELSE IF ~CardinalityOk(batch_tags, combined_translation)
         THEN /\ Post(<<ShowError("mismatch", <<>>), UpdateUi>>)
              /\ Return(th)
         ELSE /\ trees' = [trees EXCEPT ![th.root] =
                   UpdateTags(@, batch_tags, Split(combined_translation))]
              /\ Continue(th,
                   [th EXCEPT !.i = @ + BATCH_SIZE,
                              !.translated_count = count,
                              !.combined_translation = combined_translation])
              /\ Post(<<Callback("progress.batch", "", count,
                                 Len(th.strings), <<>>),
                        Callback("update_editor_from_root", "", 0, 0, <<>>)>>)
  /\ UNCHANGED <<gui, paths, xml_root, widgets, fs, api>>

\* The pass as it would be with translated_count raised by BATCH_SIZE for
\* every batch.
TranslateBatchCountingSize(th, combined_translation) ==
  /\ th.pc = "batch"
  /\ th.i < Len(th.strings)
  /\ LET batch_tags == BatchTags(th)
         count == th.translated_count + BATCH_SIZE
     IN  IF HasErrorMark(combined_translation)
         THEN /\ Post(<<ShowError("API", combined_translation), UpdateUi>>)
              /\ Return(th)
         ELSE IF ~CardinalityOk(batch_tags, combined_translation)
         THEN /\ Post(<<ShowError("mismatch", <<>>), UpdateUi>>)
              /\ Return(th)
         ELSE /\ trees' = [trees EXCEPT ![th.root] =
                   UpdateTags(@, batch_tags, Split(combined_translation))]
              /\ Continue(th,
                   [th EXCEPT !.i = @ + BATCH_SIZE,
                              !.translated_count = count,
                              !.combined_translation = combined_translation])
              /\ Post(<<Callback("progress.batch", "", count,
                                 Len(th.strings), <<>>),
                        Callback("update_editor_from_root", "", 0, 0, <<>>)>>)
  /\ UNCHANGED <<gui, paths, xml_root, widgets, fs, api>>

\* combined_text of the batch that starts at offset i.
CombinedText(th) == Join(BatchSnippets(th))

\* One pass of the loop of _worker_translate: the batch is joined and
\* translate_text_with_ai is called on it, a call that reads and writes
\* nothing of the application and returns combined_translation; then that
\* value holds "ERROR_", or the answer has another number of pieces than the
\* batch, or the answer is applied and the progress and the editor are
\* refreshed.
TranslateBatch(th, combined_translation) ==
  /\ th.pc = "batch"
  /\ th.i < Len(th.strings)
  /\ LET batch_tags == BatchTags(th)
         count == th.translated_count + Len(batch_tags)
     IN  IF HasErrorMark(combined_translation)
         THEN /\ Post(<<ShowError("API", combined_translation), UpdateUi>>)
              /\ Return(th)
         ELSE IF ~CardinalityOk(batch_tags, combined_translation)
         THEN /\ Post(<<ShowError("mismatch", <<>>), UpdateUi>>)
              /\ Return(th)
         ELSE /\ trees' = [trees EXCEPT ![th.root] =
                   UpdateTags(@, batch_tags, Split(combined_translation))]
              /\ Continue(th,
                   [th EXCEPT !.i = @ + BATCH_SIZE,
                              !.translated_count = count,
                              !.combined_translation = combined_translation])
              /\ Post(<<Callback("progress.batch", "", count,
                                 Len(th.strings), <<>>),
                        Callback("update_editor_from_root", "", 0, 0, <<>>)>>)
  /\ UNCHANGED <<gui, paths, xml_root, widgets, fs, api>>

\* _worker_translate past its loop as it would be with its callbacks run
\* before the callbacks posted earlier.
TranslateEndJumping(th) ==
  /\ th.pc = "batch"
  /\ th.i >= Len(th.strings)
  /\ after_queue' = <<Callback("progress.done", "", 0, 0, <<>>),
                      SetState("TRANSLATION_COMPLETE")>> \o after_queue
  /\ Return(th)
  /\ UNCHANGED <<gui, paths, xml_root, widgets, fs, api>>

\* _worker_translate past its loop.
TranslateEnd(th) ==
  /\ th.pc = "batch"
  /\ th.i >= Len(th.strings)
  /\ Post(<<Callback("progress.done", "", 0, 0, <<>>),
            SetState("TRANSLATION_COMPLETE")>>)
  /\ Return(th)
  /\ UNCHANGED <<gui, paths, xml_root, widgets, fs, api>>

_worker_translate(th) ==
  \/ TranslateBegin(th)
  \/ /\ th.pc = "batch"
     /\ \E combined_translation \in ApiValues(CombinedText(th)) :
          TranslateBatch(th, combined_translation)
  \/ TranslateEnd(th)

\* ---------------------------------------------------------- specifications

User ==
  \/ run_step1_select_apk
  \/ run_step2_decompile
  \/ run_step3_extract_strings
  \/ run_step4_translate
  \/ run_step5_save_translated
  \/ run_step6_recompile
  \/ run_step7_sign
  \/ toggle_expert_mode

Worker(th) ==
  \/ _worker_decompile(th)
  \/ _worker_extract_strings(th)
  \/ _worker_save_translated(th)
  \/ _worker_recompile(th)
  \/ _worker_sign(th)
  \/ _worker_translate(th)

Next == User \/ HandleAfter \/ \E th \in BagToSet(threads) : Worker(th)

\* The application, from its start.
Spec == Init /\ [][Next]_vars

\* A translate stage on its own: the application as a successful
\* _worker_extract_strings and its callbacks leave it, with override mode
\* off, on a strings.xml of one batch, of two or of three, on one with a
\* format placeholder and an empty text among its entries, on one with a
\* text of white space, on one whose texts are the separator "\n---\n", or
\* on one whose text is "ERROR_", or on one with no translatable entry.
MixedTags(n) ==
  [i \in 1..n |->
     [name |-> i,
      text |-> IF i = 2 THEN <<"%1$s">> ELSE IF i = 3 THEN <<>> ELSE <<"w">>]]

\* A strings.xml whose second entry has a text of white space only.
BlankTags ==
  <<[name |-> 1, text |-> <<"w">>], [name |-> 2, text |-> <<" ">>]>>

\* A strings.xml of two entries whose text is "\n---\n".
SepTags == [i \in 1..2 |-> [name |-> i, text |-> <<SEP>>]]

\* A strings.xml of one entry whose text is "ERROR_".
ErrorTags == <<[name |-> 1, text |-> <<"ERROR_">>]>>

\* A strings.xml of a format placeholder and an empty text.
SkippedTags ==
  <<[name |-> 1, text |-> <<"%1$s">>], [name |-> 2, text |-> <<>>]>>

RunFiles ==
  {PlainTags(1), PlainTags(101), PlainTags(250), MixedTags(103), BlankTags,
   SepTags, ErrorTags, SkippedTags}

InitRun ==
  /\ current_state = "STRINGS_EXTRACTED"
  /\ expert_mode = FALSE
  /\ buttons = UpdateUiForState("STRINGS_EXTRACTED", FALSE)
  /\ dependencies_ok = TRUE
  /\ apk_path = "apk"
  /\ decompiled_dir = "dir"
  /\ original_strings_xml_path = "strings.xml"
  /\ unsigned_apk_path = None
  /\ xml_root = 1
  /\ \E tags \in RunFiles :
       /\ trees = [id \in TreeIds |-> IF id = 1 THEN tags ELSE <<>>]
       /\ text_editor = tags
  /\ progress_bar = [maximum |-> 0, value |-> 0]
  /\ progress_text = [s |-> "", v |-> 0, t |-> 0]
  /\ after_queue = <<>>
  /\ threads = EmptyBag
  /\ fs = [tools |-> TRUE, decompiled |-> TRUE, unsigned |-> FALSE,
           saved |-> <<>>]
  /\ api = ApiIdle

NextRun ==
  \/ run_step4_translate
  \/ HandleAfter
  \/ \E th \in BagToSet(threads) : _worker_translate(th)

SpecRun == InitRun /\ [][NextRun]_vars

\* safe_api_call when the worker raises: whatever escapes _worker_translate
\* before its loop or from the call of a batch (genai.configure and
\* genai.GenerativeModel stand outside the try of translate_text_with_ai) is
\* caught, a message box is asked for and the thread returns None.
safe_api_call_except(th) ==
  /\ th.pc = "translate" \/ (th.pc = "batch" /\ th.i < Len(th.strings))
  /\ Post(<<ShowError("critical", <<>>)>>)
  /\ Return(th)
  /\ UNCHANGED <<gui, paths, xml_root, widgets, fs, api>>

NextRaise ==
  \/ NextRun
  \/ \E th \in BagToSet(threads) : safe_api_call_except(th)

\* The translate stage with workers that may raise.
SpecRaise == InitRun /\ [][NextRaise]_vars

\* The translate stage and the save stage behind it.
NextSave ==
  \/ NextRun
  \/ run_step5_save_translated
  \/ \E th \in BagToSet(threads) : _worker_save_translated(th)

SpecSave == InitRun /\ [][NextSave]_vars

\* translate_text_with_ai on its own: it is called on a text, each
\* generate_content ends one way or another, each time.sleep ends, and the
\* caller takes the value returned.
MaxSnippets == 2

Snippets(tags) == [j \in 1..Len(tags) |-> ToXml(tags[j])]

ApiTexts ==
  {<<>>, <<Ch(" ")>>} \cup {Join(Snippets(PlainTags(n))) : n \in 1..MaxSnippets}

ApiCall ==
  /\ api.pc = "idle"
  /\ \E xml_snippets_text \in ApiTexts : api' = ApiStart(xml_snippets_text)
  /\ UNCHANGED <<gui, paths, doc, widgets, after_queue, threads, fs>>

ApiPass ==
  /\ api.pc = "attempt"
  /\ \E outcome \in Outcomes : api' = ApiAttempt(api, outcome)
  /\ UNCHANGED <<gui, paths, doc, widgets, after_queue, threads, fs>>

ApiWait ==
  /\ api.pc = "sleep"
  /\ api' = ApiSleep(api)
  /\ UNCHANGED <<gui, paths, doc, widgets, after_queue, threads, fs>>

ApiResult ==
  /\ api.pc = "returned"
  /\ api' = ApiIdle
  /\ UNCHANGED <<gui, paths, doc, widgets, after_queue, threads, fs>>

NextApi == ApiCall \/ ApiPass \/ ApiWait \/ ApiResult

\* A thread that runs the call is scheduled, generate_content ends and
\* time.sleep ends: the passes and the waits are weakly fair.
SpecApi ==
  Init /\ [][NextApi]_vars /\ WF_vars(ApiPass) /\ WF_vars(ApiWait)

\* ------------------------------------------------------------- properties

Stages == {"decompile", "extract", "translate", "save", "recompile", "sign"}

\* The workflow state whose buttons start a stage.
Permits(pc) ==
  CASE pc = "decompile" -> "APK_SELECTED"
    [] pc = "extract" -> "DECOMPILED"
    [] pc = "translate" -> "STRINGS_EXTRACTED"
    [] pc = "save" -> "TRANSLATION_COMPLETE"
    [] pc = "recompile" -> "SAVED"
    [] pc = "sign" -> "RECOMPILED"

\* A step that starts a worker of a stage.
Started(pc) ==
  CopiesIn(NewThread(pc), threads') = CopiesIn(NewThread(pc), threads) + 1

\* C1: with override mode off, a worker of a stage is started only in the
\* workflow state that permits the stage.
StageOnlyInItsState ==
  [][\A pc \in Stages :
       (~expert_mode /\ Started(pc)) => current_state = Permits(pc)]_vars

\* A step in which a stage fails: the tool exits non-zero, strings.xml is
\* missing or unparsable, the write of the save fails or finds no place, the
\* keystore is missing, the translation is an error string or has another
\* number of pieces than the batch.  Such a step ends a thread; of a
\* translate run it is the step that reports: with the value it reports,
\* or with a value of another cardinality.
StageFails ==
  /\ BagCardinality(threads') < BagCardinality(threads)
  /\ \E th \in {u \in BagToSet(threads) :
                  CopiesIn(u, threads') < CopiesIn(u, threads)} :
      \/ \E returncode \in ExitCodes(TRUE) \ {0} : Decompile(th, returncode)
      \/ \E found \in ExtractOutcomes \ {"parsed"} :
           ExtractStrings(th, found, <<>>)
      \/ \E overwrite_original \in BOOLEAN :
           \E outcome \in SaveOutcomes(overwrite_original) \ {"written"} :
             SaveTranslated(th, outcome)
      \/ \E returncode \in ExitCodes(fs.decompiled) \ {0} :
           Recompile(th, returncode)
      \/ \E keystore_exists \in BOOLEAN :
           \E returncode \in ExitCodes(fs.unsigned) :
             /\ ~(keystore_exists /\ returncode = 0)
             /\ Sign(th, keystore_exists, returncode)
      \/ /\ th.pc = "batch"
         /\ th.i < Len(th.strings)
         /\ Len(after_queue') > Len(after_queue)
         /\ \E report \in {after_queue'[Len(after_queue) + 1]} :
              IF report.s = "API"
              THEN /\ HasErrorMark(report.content)
                   /\ TranslateBatch(th, report.content)
              ELSE \E combined_translation \in ApiValues(CombinedText(th)) :
                     /\ ~CardinalityOk(BatchTags(th), combined_translation)
                     /\ TranslateBatch(th, combined_translation)

\* A step in which the stage whose success state is s succeeds.
StageSucceeds(s) ==
  \E th \in BagToSet(threads) :
    CASE s = "DECOMPILED" -> Decompile(th, 0)
      [] s = "STRINGS_EXTRACTED" ->
           \E tags \in StringsFiles : ExtractStrings(th, "parsed", tags)
      [] s = "TRANSLATION_COMPLETE" -> TranslateEnd(th)
      [] s = "SAVED" -> SaveTranslated(th, "written")
      [] s = "RECOMPILED" -> Recompile(th, 0)
      [] s = "INITIAL" -> Sign(th, TRUE, 0)
      [] OTHER -> FALSE

\* The callbacks a step adds to the queue.
PostedNow == SubSeq(after_queue', Len(after_queue) + 1, Len(after_queue'))

\* C2: a step in which a stage fails leaves the workflow state as it is and
\* posts no set_state; a set_state is posted only by the step in which the
\* stage of that state succeeds; and the workflow state changes only when the
\* event loop runs a posted set_state or when an APK has been copied.
NoFailureAdvances ==
  [][/\ StageFails =>
          /\ current_state' = current_state
          /\ \A k \in DOMAIN PostedNow : PostedNow[k].cb # "set_state"
     /\ \A k \in DOMAIN PostedNow :
          PostedNow[k].cb = "set_state" => StageSucceeds(PostedNow[k].s)
     /\ current_state' # current_state =>
          \/ SelectApk("copied")
          \/ HandleAfter /\ Head(after_queue) = SetState(current_state')]_vars

\* C2, its case: a translate run has failed on a cardinality mismatch, its
\* report is still to be shown, and the workflow state is STRINGS_EXTRACTED
\* as before the run.
FailureLeftState ==
  /\ current_state = "STRINGS_EXTRACTED"
  /\ ~expert_mode
  /\ threads = EmptyBag
  /\ after_queue # <<>>
  /\ Head(after_queue) = ShowError("mismatch", <<>>)

\* The workflow state that follows a state in the order of the stages.
Successor(state) ==
  CASE state = "INITIAL" -> "APK_SELECTED"
    [] state = "APK_SELECTED" -> "DECOMPILED"
    [] state = "DECOMPILED" -> "STRINGS_EXTRACTED"
    [] state = "STRINGS_EXTRACTED" -> "TRANSLATION_COMPLETE"
    [] state = "TRANSLATION_COMPLETE" -> "SAVED"
    [] state = "SAVED" -> "RECOMPILED"
    [] state = "RECOMPILED" -> "INITIAL"

\* C3: with override mode off, every change of the workflow state goes from
\* a state to its successor in the order of the stages.
StateOrderIsLinear ==
  [][(~expert_mode /\ current_state' # current_state)
       => current_state' = Successor(current_state)]_vars

\* The translate workers alive.
TranslateWorkers ==
  [th \in {u \in BagToSet(threads) : StageOf(u.pc) = "translate"} |->
     CopiesIn(th, threads)]

\* C4: at most one translate worker is alive at any time.
OneTranslateRun == BagCardinality(TranslateWorkers) <= 1

\* The text a snippet was serialized from.
SentText(snip) ==
  [j \in 1..(Len(snip) - 2) |->
     IF snip[j + 1].k = "sep" THEN SEP ELSE snip[j + 1].c]

\* The text of the tag a run translates as number j, in a document.
TextOf(tr, th, j) == tr[th.root][th.strings[j]].text

\* A step in which a translate run reports: the title of the report.
Reports(title) == PostedNow # <<>> /\ PostedNow[1] = ShowError(title, PostedNow[1].content)

\* A step in which the run of th ends.
Ends(th) == threads' = threads (-) SetToBag({th})

\* C5: when the answer to a batch has another number of pieces than the
\* batch, the run ends in that step, the step changes no record, every
\* record of that batch and of the later ones has the text it was sent with,
\* and the workflow state stays as it is, no set_state being posted.
MismatchAborts ==
  [][\A th \in BagToSet(threads) :
       (th.pc = "batch" /\ Reports("mismatch") /\ threads' # threads) =>
         /\ Ends(th)
         /\ trees' = trees
         /\ \A j \in (th.i + 1)..Len(th.strings) :
              TextOf(trees', th, j) = SentText(th.snippets[j])
         /\ current_state' = current_state
         /\ PostedNow = <<ShowError("mismatch", <<>>), UpdateUi>>]_vars

\* C5, its case: of 250 records the first batch is translated, the second
\* batch got an answer of another cardinality and the run has ended: the
\* records from 101 on have their source text and the workflow state is
\* STRINGS_EXTRACTED.
MismatchAtSecondBatch ==
  /\ Len(trees[1]) = 250
  /\ threads = EmptyBag
  /\ \E k \in DOMAIN after_queue : after_queue[k] = ShowError("mismatch", <<>>)
  /\ \A j \in 1..100 : trees[1][j].text = <<"t">>
  /\ \A j \in 101..250 : trees[1][j].text = <<"w">>
  /\ current_state = "STRINGS_EXTRACTED"

\* The text a record gets from a well-formed answer to its snippet.
TranslatedText(snip) == ParsedText(TranslateXml(snip))

\* A step in which the run of th stops at an error string of the adapter.
ApiAbort(th) == th.pc = "batch" /\ Reports("API") /\ threads' # threads

OneMalformedFragment ==
  [][\A th \in BagToSet(threads) :
       (th.pc = "batch" /\ th.i < Len(th.strings) /\ threads' # threads
        /\ ~Reports("API") /\ ~Reports("mismatch")) =>
         \A th2 \in BagToSet(threads') :
           \A pieces \in {Split(th2.combined_translation)} :
             \A bad \in {{p \in DOMAIN pieces : ~ParseOk(Strip(pieces[p]))}} :
               Cardinality(bad) = 1 =>
                 /\ threads' = SetToBag({th2})
                 /\ th2.pc = "batch"
                 /\ th2.i = th.i + BATCH_SIZE
                 /\ Len(pieces) = Len(BatchTags(th))
                 /\ \A p \in DOMAIN pieces :
                      TextOf(trees', th, th.i + p) =
                        IF p \in bad
                        THEN <<TRANSLATION_ERROR>>
                               \o SentText(th.snippets[th.i + p])
                        ELSE ParsedText(Strip(pieces[p]))
                 /\ \A j \in 1..Len(th.strings) :
                      (j <= th.i \/ j > th.i + Len(pieces)) =>
                        TextOf(trees', th, j) = TextOf(trees, th, j)]_vars

\* C7, its case: of 250 records the answer to the first batch had one
\* malformed piece, at the first place: record 1 is Failed with its source
\* text kept, records 2 to 100 are translated, and the run went on to
\* translate the second batch.
MalformedThenNextBatch ==
  /\ Len(trees[1]) = 250
  /\ trees[1][1].text = <<TRANSLATION_ERROR, "w">>
  /\ \A j \in 2..200 : trees[1][j].text = <<"t">>
  /\ \E th \in BagToSet(threads) : th.pc = "batch" /\ th.i = 200

\* The log of the call in hand: the places of its attempts, and the cooldown
\* entry.
Attempts == {k \in DOMAIN api.log : api.log[k].what # "sleep"}

Cooldown == LogEntry("sleep", API_RATE_LIMIT_WAIT_SEC)

\* C8: a call makes at most API_MAX_RETRIES attempts; an attempt that
\* answers is the last thing the call does; after a rate-limited or timed-out
\* attempt that is not attempt API_MAX_RETRIES the call waits
\* API_RATE_LIMIT_WAIT_SEC seconds, and only then makes the next attempt;
\* every attempt but the first comes straight after such a wait.
RetryPolicy ==
  /\ Cardinality(Attempts) <= API_MAX_RETRIES
  /\ \A k \in Attempts :
       /\ api.log[k].what = "ok" => k = Len(api.log) /\ api.pc = "returned"
       /\ (api.log[k].what \in Retried
           /\ Cardinality({j \in Attempts : j <= k}) < API_MAX_RETRIES) =>
            IF k = Len(api.log) THEN api.pc = "sleep"
            ELSE api.log[k + 1] = Cooldown
       /\ k > 1 =>
            /\ api.log[k - 1] = Cooldown
            /\ k - 2 \in Attempts
            /\ api.log[k - 2].what \in Retried
  /\ \A k \in DOMAIN api.log :
       api.log[k].what = "sleep" =>
         /\ api.log[k] = Cooldown
         /\ k - 1 \in Attempts
         /\ api.log[k - 1].what \in Retried

\* C8, its case: a call whose first attempt timed out and whose second was
\* rate limited waited 60 s after each and returned the answer of the third.
ThirdAttemptAnswers ==
  /\ api.pc = "returned"
  /\ api.log = <<LogEntry("timeout", 0), Cooldown,
                 LogEntry("rate_limit", 0), Cooldown, LogEntry("ok", 0)>>
  /\ ~HasErrorMark(api.value)

Payloads(text) == {Strip(Response(kind, text)) : kind \in ResponseKinds}

ErrorClasses == {"RATE_LIMIT", "TIMEOUT", "UNEXPECTED", "MAX_RETRIES_REACHED"}

SendsBatch(th) ==
  th.pc = "batch" /\ th.i < Len(th.strings) /\ threads' # threads

\* C11: a translate run sends no record that an earlier run has translated:
\* the documents of SpecRun hold the translated text "t" only where a run
\* has written it, so no snippet of a batch sent holds the text "t".
ResumeSkipsTranslated ==
  [][\A th \in BagToSet(threads) :
       SendsBatch(th) =>
         \A j \in (th.i + 1)..Min(th.i + BATCH_SIZE, Len(th.strings)) :
           SentText(th.snippets[j]) # <<"t">>]_vars

\* C12: the batches of a run are contiguous slices of the translatable
\* records in extraction order.  The run starts at offset 0 on the positions
\* of the translatable tags in increasing order, with the snippet of each; a
\* batch is the slice of at most BATCH_SIZE records at the offset, of exactly
\* BATCH_SIZE unless it is the last, and the text sent is the join of its
\* snippets; the offset is a multiple of BATCH_SIZE and the next batch starts
\* BATCH_SIZE behind; the run is over only with the offset past the last
\* record and less than BATCH_SIZE past it.
BatchesPartitionRecords ==
  [][\A th \in BagToSet(threads) :
       threads' # threads =>
         /\ th.pc = "translate" =>
              \A th2 \in BagToSet(threads') :
                th2.pc = "batch" =>
                  /\ th2.i = 0
                  /\ \A j \in 1..(Len(th2.strings) - 1) :
                       th2.strings[j] < th2.strings[j + 1]
                  /\ {th2.strings[j] : j \in DOMAIN th2.strings} =
                       {k \in DOMAIN trees[xml_root] :
                          IsTranslatable(trees[xml_root][k])}
                  /\ th2.snippets =
                       [j \in DOMAIN th2.strings |->
                          ToXml(trees[xml_root][th2.strings[j]])]
         /\ SendsBatch(th) =>
              \A m \in {Min(BATCH_SIZE, Len(th.strings) - th.i)} :
                /\ th.i % BATCH_SIZE = 0
                /\ BatchTags(th) = [p \in 1..m |-> th.strings[th.i + p]]
                /\ CombinedText(th) =
                     Join([p \in 1..m |-> th.snippets[th.i + p]])
                /\ th.i + BATCH_SIZE < Len(th.strings) => m = BATCH_SIZE
                /\ \A th2 \in BagToSet(threads') :
                     th2.i = th.i + BATCH_SIZE
         /\ (th.pc = "batch" /\ ~SendsBatch(th)) =>
              /\ th.i >= Len(th.strings)
              /\ th.i < Len(th.strings) + BATCH_SIZE
              /\ threads' = EmptyBag]_vars

\* C12, its case: of 250 records two batches of BATCH_SIZE are translated
\* and the run stands at offset 200, before its last batch of 50.
TwoBatchesOfThreeDone ==
  /\ Len(trees[1]) = 250
  /\ \A j \in 1..200 : trees[1][j].text = <<"t">>
  /\ \A j \in 201..250 : trees[1][j].text = <<"w">>
  /\ \E th \in BagToSet(threads) :
       th.pc = "batch" /\ th.i = 200 /\ Len(th.strings) = 250

\* A text that holds '%' together with 's' or 'd', like "%1$s".
IsPlaceholder(text) == HasPercent(text) /\ HasSOrD(text)

\* The records of a document that have a text and no placeholder in it.
WithPlainText(tree) ==
  {k \in DOMAIN tree : tree[k].text # <<>> /\ ~IsPlaceholder(tree[k].text)}

\* The callbacks a step posts that publish progress.
ProgressPosted ==
  {k \in DOMAIN PostedNow : PostedNow[k].cb \in {"progress.begin", "progress.batch"}}

\* C13: a record whose text is a format placeholder is Skipped: no step
\* changes it, no run holds it among the records it translates, no batch
\* sent holds a snippet of such a text, and the total a run publishes with
\* its progress counts the records with a text that holds no placeholder.
PlaceholderIsSkipped ==
  [][/\ \A k \in DOMAIN trees[xml_root] :
          IsPlaceholder(trees[xml_root][k].text) =>
            /\ trees'[xml_root][k] = trees[xml_root][k]
            /\ \A th \in BagToSet(threads') :
                 \A j \in DOMAIN th.strings : th.strings[j] # k
     /\ \A th \in BagToSet(threads) :
          SendsBatch(th) =>
            \A j \in (th.i + 1)..Min(th.i + BATCH_SIZE, Len(th.strings)) :
              ~IsPlaceholder(SentText(th.snippets[j]))
     /\ \A k \in ProgressPosted :
          PostedNow[k].t = Cardinality(WithPlainText(trees[xml_root]))]_vars

\* C13, its case: a run over 103 records, the second of them "%1$s" and the
\* third empty, is over: the placeholder is as it was, the 101 other records
\* with text are translated and the progress bar counts to 101.
PlaceholderLeftByRun ==
  /\ Len(trees[1]) = 103
  /\ trees[1][2].text = <<"%1$s">>
  /\ trees[1][1].text = <<"t">>
  /\ \A j \in 4..103 : trees[1][j].text = <<"t">>
  /\ progress_bar = [maximum |-> 101, value |-> 101]
  /\ current_state = "TRANSLATION_COMPLETE"

\* A text that is empty or holds white space only.
IsBlankText(text) == \A i \in DOMAIN text : text[i] \in {" ", "\n"}

\* C14: a record whose text is empty or of white space only is Skipped: no
\* batch sent holds a snippet of such a text.
BlankIsSkipped ==
  [][\A th \in BagToSet(threads) :
       SendsBatch(th) =>
         \A j \in (th.i + 1)..Min(th.i + BATCH_SIZE, Len(th.strings)) :
           ~IsBlankText(SentText(th.snippets[j]))]_vars

\* C15: progress is published once by every step that applies a batch and
\* by no step in which a batch fails; the count published is greater than
\* the count the run had, is the number of the records of the batches
\* applied so far, and is at most the total, which is the number of the
\* records the run translates; a run completes with its count at the total,
\* and the workflow state becomes TRANSLATION_COMPLETE with the progress bar
\* at its maximum.
ProgressFollowsBatches ==
  [][/\ \A th \in BagToSet(threads) :
          threads' # threads =>
            /\ SendsBatch(th) =>
                 IF Reports("API") \/ Reports("mismatch")
                 THEN ProgressPosted = {}
                 ELSE /\ Cardinality(ProgressPosted) = 1
                      /\ \A k \in ProgressPosted :
                           /\ PostedNow[k].cb = "progress.batch"
                           /\ PostedNow[k].v > th.translated_count
                           /\ PostedNow[k].v =
                                Min(th.i + BATCH_SIZE, Len(th.strings))
                           /\ PostedNow[k].v <= PostedNow[k].t
                           /\ PostedNow[k].t = Len(th.strings)
                           /\ \A th2 \in BagToSet(threads') :
                                th2.translated_count = PostedNow[k].v
            /\ (th.pc = "batch" /\ ~SendsBatch(th)) =>
                 /\ th.translated_count = Len(th.strings)
                 /\ ProgressPosted = {}
                 /\ PostedNow[Len(PostedNow)] = SetState("TRANSLATION_COMPLETE")
            /\ th.pc = "translate" =>
                 \A k \in ProgressPosted :
                   PostedNow[k].cb = "progress.begin" /\ PostedNow[k].v = 0
     /\ (current_state' # current_state
         /\ current_state' = "TRANSLATION_COMPLETE") =>
          /\ progress_bar.value = progress_bar.maximum
          /\ progress_bar.maximum > 0]_vars

\* C15, its case: a run over 250 records is over, three batches published
\* 100, 200 and 250 of 250, and the workflow state is TRANSLATION_COMPLETE.
ProgressAtTotal ==
  /\ Len(trees[1]) = 250
  /\ progress_bar = [maximum |-> 250, value |-> 250]
  /\ current_state = "TRANSLATION_COMPLETE"
  /\ threads = EmptyBag

\* A step in which the run of th applies the answer to its batch.
AppliesBatch(th) ==
  SendsBatch(th) /\ ~Reports("API") /\ ~Reports("mismatch")

\* C16: the step that applies an answer sets the text of the record at place
\* p of the batch from the piece at place p of the answer, whatever name the
\* piece carries: to the text of the piece where it parses, to the sentinel
\* prefix before the text it had where it does not.  The document keeps its
\* length, every record keeps its name and its place, and every record that
\* is not of the batch, a Skipped one too, and every other document is as
\* it was.
ApplyIsPositional ==
  [][\A th \in BagToSet(threads) :
       AppliesBatch(th) =>
         \A th2 \in BagToSet(threads') :
           \A pieces \in {Split(th2.combined_translation)} :
             \A batch \in {{th.strings[th.i + p] : p \in DOMAIN pieces}} :
               /\ Len(trees'[th.root]) = Len(trees[th.root])
               /\ \A p \in DOMAIN pieces :
                    TextOf(trees', th, th.i + p) =
                      IF ParseOk(Strip(pieces[p]))
                      THEN ParsedText(Strip(pieces[p]))
                      ELSE <<TRANSLATION_ERROR>>
                             \o TextOf(trees, th, th.i + p)
               /\ \A k \in DOMAIN trees[th.root] :
                    /\ trees'[th.root][k].name = trees[th.root][k].name
                    /\ k \notin batch =>
                         trees'[th.root][k] = trees[th.root][k]
               /\ \A id \in TreeIds \ {th.root} : trees'[id] = trees[id]]_vars

\* C16, its case: of 103 records, the second a placeholder and the third
\* empty, the answer to the first batch carried a name of no record on every
\* piece and is applied: records 1 and 4 to 102 have the translated text by
\* their place, records 2 and 3 and the record 103 of the next batch are as
\* they were, and every record has its name.
RenamedAnswerApplied ==
  /\ Len(trees[1]) = 103
  /\ \E th \in BagToSet(threads) :
       /\ th.pc = "batch" /\ th.i = BATCH_SIZE
       /\ th.combined_translation # <<>>
       /\ th.combined_translation[1] = Open(0)
  /\ trees[1][1].text = <<"t">>
  /\ \A j \in 4..102 : trees[1][j].text = <<"t">>
  /\ trees[1][2].text = <<"%1$s">>
  /\ trees[1][3].text = <<>>
  /\ trees[1][103].text = <<"w">>
  /\ \A j \in 1..103 : trees[1][j].name = j

\* A step in which the worker th of a stage ends.
WorkerEnds(th) ==
  /\ BagCardinality(threads') < BagCardinality(threads)
  /\ CopiesIn(th, threads') < CopiesIn(th, threads)

\* C17: the step in which a sign worker ends after a signing that succeeded,
\* the one that removes the work directory, posts set_state(INITIAL) and
\* nothing else; the step in which it ends after a failure posts nothing;
\* neither changes the workflow state.  The event loop running that
\* set_state makes the state INITIAL with the buttons of INITIAL, the state
\* comes back to INITIAL in no other way, and in INITIAL the selection of a
\* package is open as at the start.
SignResetsToInitial ==
  [][/\ \A th \in BagToSet(threads) :
          (th.pc = "sign" /\ WorkerEnds(th)) =>
            /\ current_state' = current_state
            /\ PostedNow = IF fs' # fs THEN <<SetState("INITIAL")>> ELSE <<>>
     /\ (after_queue # <<>> /\ after_queue' = Tail(after_queue)
         /\ Head(after_queue) = SetState("INITIAL")) =>
          /\ current_state' = "INITIAL"
          /\ buttons' = UpdateUiForState("INITIAL", expert_mode)
     /\ (current_state' = "INITIAL" /\ current_state # "INITIAL") =>
          /\ after_queue # <<>>
          /\ after_queue' = Tail(after_queue)
          /\ Head(after_queue) = SetState("INITIAL")
     /\ (current_state = "INITIAL" /\ after_queue = <<>>) =>
          ENABLED SelectApk("copied")]_vars

\* C17, its case: a package was decompiled, its strings were extracted and
\* translated, it was recompiled and then signed: the work directory is
\* gone, the workflow state is INITIAL again with override mode off, no
\* stage button is enabled and nothing is running or pending.
SignedAndReset ==
  /\ current_state = "INITIAL"
  /\ ~expert_mode
  /\ decompiled_dir # None
  /\ xml_root # 0
  /\ trees[xml_root] # <<>>
  /\ trees[xml_root][1].text = <<"t">>
  /\ progress_text.s = "done"
  /\ unsigned_apk_path # None
  /\ ~fs.unsigned /\ ~fs.decompiled
  /\ buttons = {}
  /\ threads = EmptyBag
  /\ after_queue = <<>>

\* The callbacks by which a translate run that is over has the buttons set
\* again.
Refreshes == {"_update_ui_for_state", "step4a_btn.config", "set_state"}

\* What the handler of a stage tests before it starts its worker.
InputsOf(pc) ==
  CASE pc = "decompile" -> dependencies_ok /\ apk_path # None
    [] pc = "extract" -> decompiled_dir # None /\ fs.decompiled
    [] pc = "translate" -> xml_root # 0
    [] pc = "save" -> decompiled_dir # None
    [] pc = "recompile" -> dependencies_ok /\ decompiled_dir # None
    [] pc = "sign" -> dependencies_ok /\ unsigned_apk_path # None /\ fs.unsigned

RequestsInFlight ==
  [th \in {u \in BagToSet(threads) : u.pc = "batch" /\ u.i < Len(u.strings)}
     |-> CopiesIn(th, threads)]

\* C19: at any moment at most one batch request is in flight.
OneRequestInFlight == BagCardinality(RequestsInFlight) <= 1

\* A step of a worker thread: a thread alive goes on or ends.  The steps of
\* the GUI thread, its handlers and the callbacks of its event loop, start a
\* thread or leave the threads alone.
WorkerStep ==
  \E th \in BagToSet(threads) : CopiesIn(th, threads') < CopiesIn(th, threads)

\* C20: no step of a worker thread changes the workflow state or a record of
\* the document self.xml_root refers to: those change in steps of the GUI
\* thread only.
WorkerHandsOver ==
  [][WorkerStep =>
       /\ current_state' = current_state
       /\ xml_root' = xml_root
       /\ xml_root # 0 => trees'[xml_root] = trees[xml_root]]_vars

\* The event loop runs update_editor_from_root: the editor is filled from
\* the document self.xml_root refers to as it is at that moment.
ShowsEditor ==
  /\ after_queue # <<>>
  /\ Head(after_queue).cb = "update_editor_from_root"
  /\ after_queue' = Tail(after_queue)

\* C21: while a run is alive the editor shows the batches published so far
\* and nothing of a later batch.  The refresh posted after batch k follows
\* the progress callback of batch k, so the progress bar stands at the
\* records of batches 1..k when it runs; every record of the run behind
\* them is shown as the run serialized it at its start.
EditorShowsPublishedBatches ==
  [][ShowsEditor =>
       \A th \in BagToSet(threads) :
         th.pc = "batch" =>
           \A j \in (progress_bar.value + 1)..Len(th.strings) :
             ToXml(text_editor'[th.strings[j]]) = th.snippets[j]]_vars

\* C22: a batch survives the round trip.  The batch of N records a run
\* sends, answered by the text sent itself (as translate_text_with_ai
\* returns it, stripped), splits into N pieces, piece p being snippet p of
\* the batch up to white space at its ends, and the step that deals with
\* that answer reports no mismatch.
EchoRoundTrips ==
  [][\A th \in BagToSet(threads) :
       SendsBatch(th) =>
         \A echo \in {Strip(CombinedText(th))} :
           \A pieces \in {Split(echo)} :
             /\ Len(pieces) = Len(BatchTags(th))
             /\ \A p \in 1..Len(BatchTags(th)) :
                  Strip(pieces[p]) = BatchSnippets(th)[p]
             /\ TranslateBatch(th, echo) => ~Reports("mismatch")]_vars

\* The stages that run java with apktool or apksigner.
ToolStages == {"decompile", "recompile", "sign"}

\* C23: while self.dependencies_ok is False, no worker of the decompile,
\* recompile or sign stage is started and none is alive, so no step runs
\* run_command, and the workflow state never leaves INITIAL and
\* APK_SELECTED, the states the file dialog of step 1 sets.
MissingToolBlocks ==
  /\ [](~dependencies_ok =>
          /\ \A th \in BagToSet(threads) : th.pc \notin ToolStages
          /\ current_state \in {"INITIAL", "APK_SELECTED"})
  /\ [][~dependencies_ok => \A pc \in ToolStages : ~Started(pc)]_vars

\* C23, its case: a tool is missing from the bundle and the check at start
\* has recorded it; a package is selected and override mode is on, so the
\* buttons of all three stages are enabled, and no worker is alive.
MissingToolAndEveryButton ==
  /\ ~fs.tools
  /\ ~dependencies_ok
  /\ after_queue = <<>>
  /\ current_state = "APK_SELECTED"
  /\ apk_path # None
  /\ expert_mode
  /\ {"step2_btn", "step6_btn", "step7_btn"} \subseteq buttons
  /\ threads = EmptyBag

\* The failure strings of the adapter, one of each class.
TypedFailures == {ErrorString(class) : class \in ErrorClasses}

\* C24: the run treats the value of the adapter as a terminal failure
\* exactly when it is a failure string: the step that deals with a value
\* reports an API error and ends the run if the value is a failure string,
\* and for any other value of the cardinality of the batch it applies the
\* value to the batch and the run goes on.
FailureExactlyWhenTyped ==
  [][\A th \in BagToSet(threads) :
       SendsBatch(th) =>
         \A v \in ApiValues(CombinedText(th)) :
           TranslateBatch(th, v) =>
             /\ (Reports("API") /\ Ends(th)) <=> v \in TypedFailures
             /\ (v \notin TypedFailures /\ CardinalityOk(BatchTags(th), v)) =>
                  /\ ~Ends(th)
                  /\ trees' = [trees EXCEPT ![th.root] =
                                 UpdateTags(@, BatchTags(th), Split(v))]]_vars

\* C25: a translate run that ended without completing can be tried again.
\* With override mode off, once the run has ended and its callbacks are
\* handled, the workflow state is STRINGS_EXTRACTED with the translate
\* button enabled, unless the run completed and the state is
\* TRANSLATION_COMPLETE.
RetryAfterFailedRun ==
  (threads = EmptyBag /\ after_queue = <<>>
     /\ current_state # "TRANSLATION_COMPLETE") =>
    /\ current_state = "STRINGS_EXTRACTED"
    /\ "step4a_btn" \in buttons

\* The cooldown waits of the call in hand.
Waits == {k \in DOMAIN api.log : api.log[k].what = "sleep"}

\* C26: a call never returns ERROR_MAX_RETRIES_REACHED and never comes to
\* the line behind its loop.  A call that failed at attempt API_MAX_RETRIES
\* returns at that attempt the error string of what the attempt raised; a
\* call waits at most API_MAX_RETRIES - 1 times, and a wait is never the
\* last thing a call did nor what follows attempt API_MAX_RETRIES.
NeverMaxRetriesReached ==
  /\ api.value # ErrorString("MAX_RETRIES_REACHED")
  /\ \A k \in DOMAIN api.log : api.log[k].what # "exhausted"
  /\ Cardinality(Waits) <= API_MAX_RETRIES - 1
  /\ Cardinality(Attempts) = API_MAX_RETRIES =>
       /\ api.pc = "returned"
       /\ api.log[Len(api.log)].what # "sleep"
       /\ api.log[Len(api.log)].what = "rate_limit" =>
            api.value = ErrorString("RATE_LIMIT")
       /\ api.log[Len(api.log)].what = "timeout" =>
            api.value = ErrorString("TIMEOUT")
  /\ api.pc = "returned" /\ api.log # <<>> =>
       api.log[Len(api.log)].what # "sleep"

\* C26, its case: a call rate limited twice and timed out at its third
\* attempt waited twice and has returned ERROR_TIMEOUT.
BudgetEndsInTimeout ==
  /\ api.pc = "returned"
  /\ api.value = ErrorString("TIMEOUT")
  /\ api.log = <<LogEntry("rate_limit", 0), Cooldown,
                 LogEntry("rate_limit", 0), Cooldown,
                 LogEntry("timeout", 0)>>

\* The callback that enables the translate button again.
EnableTranslate == Callback("step4a_btn.config", "", 0, 0, <<>>)

\* C27: on a document with no translatable record, with override mode off,
\* the workflow state stays STRINGS_EXTRACTED and no run comes to a batch,
\* so no run calls the adapter; the step of a run posts the callback that
\* enables the translate button, and nothing else, ends the run and changes
\* neither a record nor the workflow state; and the event loop running that
\* callback enables the button and leaves the workflow state.
NoTranslatableStays ==
  /\ [](WithPlainText(trees[xml_root]) = {} =>
          /\ current_state = "STRINGS_EXTRACTED"
          /\ \A th \in BagToSet(threads) : th.pc = "translate")
  /\ [][WithPlainText(trees[xml_root]) = {} =>
          /\ \A th \in BagToSet(threads) :
               CopiesIn(th, threads') < CopiesIn(th, threads) =>
                 /\ Ends(th)
                 /\ PostedNow = <<EnableTranslate>>
                 /\ trees' = trees
                 /\ current_state' = current_state
          /\ (after_queue # <<>> /\ Head(after_queue) = EnableTranslate
              /\ after_queue' = Tail(after_queue)) =>
               /\ "step4a_btn" \in buttons'
               /\ current_state' = current_state]_vars

\* C27, its case: the run on a document of a placeholder and an empty text
\* has ended, the translate button is still disabled and the callback that
\* enables it is pending.
NothingToTranslate ==
  /\ WithPlainText(trees[xml_root]) = {}
  /\ threads = EmptyBag
  /\ after_queue = <<EnableTranslate>>
  /\ "step4a_btn" \notin buttons
  /\ current_state = "STRINGS_EXTRACTED"

\* A document in which no record has the source text "w" of the documents
\* of the translate stage: every record a run translates was written by a
\* batch, as a translation or with the sentinel prefix.
AllBatchesIn(content) == \A k \in DOMAIN content : content[k].text # <<"w">>

\* C28: the callbacks are run in the order they were posted: a step adds
\* callbacks behind those pending or the event loop takes the oldest.  So
\* in the state TRANSLATION_COMPLETE, with override mode off, the editor
\* holds the document as the run left it, every batch applied, from the step
\* on that sets the state and enables the save button; and what a save
\* writes is that document.
SavePersistsAllBatches ==
  /\ [](current_state = "TRANSLATION_COMPLETE" =>
          /\ text_editor = Document(xml_root)
          /\ AllBatchesIn(text_editor)
          /\ threads = EmptyBag => "step5_btn" \in buttons)
  /\ [][/\ IF Len(after_queue') < Len(after_queue)
            THEN after_queue' = Tail(after_queue)
            ELSE SubSeq(after_queue', 1, Len(after_queue)) = after_queue
         /\ PostedNow = <<SetState("SAVED")>> =>
              /\ fs'.saved = Document(xml_root)
              /\ AllBatchesIn(fs'.saved)]_vars

\* C28, its case: a run over 250 records, three batches, has completed, the
\* save stage has written the file and the state is SAVED: the file holds
\* the translation of every one of the 250 records.
SavedThreeBatches ==
  /\ current_state = "SAVED"
  /\ Len(fs.saved) = 250
  /\ \A k \in 1..250 : fs.saved[k].text = <<"t">>

====
